---- MODULE Spec2Model ----
(***************************************************************************)
(* Eufy X10 debugging integration: the data update coordinator             *)
(* (custom_components/eufy_x10_debugging/coordinator.py) as a state        *)
(* machine.  One poll cycle is _async_update_data: count the update, fetch *)
(* the raw key -> value mapping, rebuild parsed_data from it with the five *)
(* field decoders, return it (or raise UpdateFailed).                      *)
(*                                                                         *)
(* Python values are modelled as tagged records [t, n, s]:                 *)
(*   t = "int"   n the integer                                             *)
(*   t = "bool"  n = 1 for True, 0 for False (bool is a subclass of int)   *)
(*   t = "str"   s the characters, a sequence of one-character strings     *)
(*   t = "float" n the value in tenths (finite floats only)                *)
(*   t = "inf", "nan"  the float infinity and not-a-number                 *)
(*   t = "none"  None                                                      *)
(* An optional field (None or a value) is a sequence of length at most 1.  *)
(***************************************************************************)
EXTENDS Integers, Sequences, FiniteSets, TLC

VARIABLES
    pc,            \* where _async_update_data stands: "idle", "fetching", "processing"
    update_count,  \* self.update_count
    raw_data,      \* self.raw_data: a function from the keys present to values
    parsed_data,   \* self.parsed_data: <<>> for {}, else the record of _process_data
    last_update,   \* self.last_update: None or a clock reading
    returned,      \* the snapshot the last completed cycle returned, None before
    outcome,       \* how the last cycle ended: "none", "ok", "UpdateFailed"
    clock,         \* time.time()
    heap,          \* the dict objects self.parsed_data has been bound to, in
                   \* order of creation, each with its contents now; the last
                   \* one is the object self.parsed_data refers to
    snapshots,     \* history: for every snapshot returned so far, the object
                   \* returned (ref), the raw data it was built from and its
                   \* contents when it was returned
    shut_down      \* history: async_shutdown has been called and has returned

vars ==
    <<pc, update_count, raw_data, parsed_data, last_update, returned, outcome,
      clock, heap, snapshots, shut_down>>

(***************************************************************************)
(* Bounds of the model.                                                    *)
(***************************************************************************)
MaxUpdates == 3     \* poll cycles started in one behaviour
MaxTime == 2        \* largest reading of the wall clock
RawIntSpan == 60    \* raw integers range over -RawIntSpan .. 100 + RawIntSpan
MaxStrLen == 3      \* longest string tried as key "163"
MaxTailLen == 5     \* longest tail after one full base64 quad for key "167"

(***************************************************************************)
(* const.py                                                                *)
(***************************************************************************)
MONITORED_KEYS ==
    <<"163", "167", "177", "178", "168", "153", "152", "158", "154", "155",
      "160", "173">>

CLEAN_SPEED_NAMES == <<"quiet", "standard", "turbo", "max">>

WORK_STATUS_MAP ==
    [i \in 0..8 |->
        CASE i = 0 -> "standby"
          [] i = 1 -> "sleep"
          [] i = 2 -> "fault"
          [] i = 3 -> "charging"
          [] i = 4 -> "fast_mapping"
          [] i = 5 -> "cleaning"
          [] i = 6 -> "remote_ctrl"
          [] i = 7 -> "go_home"
          [] i = 8 -> "cruising"]

(***************************************************************************)
(* Python values.                                                          *)
(***************************************************************************)
None == <<>>
Some(x) == <<x>>

IntV(i) == [t |-> "int", n |-> i, s |-> <<>>]
BoolV(b) == [t |-> "bool", n |-> IF b THEN 1 ELSE 0, s |-> <<>>]
StrV(chars) == [t |-> "str", n |-> 0, s |-> chars]
FloatV(tenths) == [t |-> "float", n |-> tenths, s |-> <<>>]
InfV == [t |-> "inf", n |-> 0, s |-> <<>>]
NanV == [t |-> "nan", n |-> 0, s |-> <<>>]
NoneV == [t |-> "none", n |-> 0, s |-> <<>>]

\* isinstance(v, int): True for int and for bool, its subclass
IsInstanceInt(v) == v.t \in {"int", "bool"}

\* isinstance(v, str)
IsInstanceStr(v) == v.t = "str"

\* bool(v): the truthiness of a value
PyBool(v) ==
    CASE v.t \in {"int", "bool", "float"} -> v.n # 0
      [] v.t = "str" -> Len(v.s) > 0
      [] v.t \in {"inf", "nan"} -> TRUE
      [] OTHER -> FALSE

Min(a, b) == IF a <= b THEN a ELSE b
Max(a, b) == IF a >= b THEN a ELSE b

(***************************************************************************)
(* int(v).  The result is [exc, val]: exc = "" and the integer, or the     *)
(* name of the exception int() raises.                                     *)
(***************************************************************************)
Ok(x) == [exc |-> "", val |-> x]
Raise(e) == [exc |-> e, val |-> 0]

Digits == <<"0", "1", "2", "3", "4", "5", "6", "7", "8", "9">>
IsDigit(c) == \E i \in 1..10 : Digits[i] = c
DigitVal(c) == (CHOOSE i \in 1..10 : Digits[i] = c) - 1
IsSpace(c) == c = " "

RECURSIVE LStrip(_)
LStrip(cs) == IF cs # <<>> /\ IsSpace(Head(cs)) THEN LStrip(Tail(cs)) ELSE cs

RECURSIVE RStrip(_)
RStrip(cs) ==
    IF cs # <<>> /\ IsSpace(cs[Len(cs)])
    THEN RStrip(SubSeq(cs, 1, Len(cs) - 1))
    ELSE cs

\* digits of an integer literal: digit ("_"? digit)*
RECURSIVE IsDigitRun(_)
IsDigitRun(cs) ==
    /\ cs # <<>>
    /\ IsDigit(Head(cs))
    /\ \/ Len(cs) = 1
       \/ IsDigitRun(Tail(cs))
       \/ Len(cs) >= 3 /\ cs[2] = "_" /\ IsDigitRun(SubSeq(cs, 3, Len(cs)))

RECURSIVE DigitRunVal(_, _)
DigitRunVal(cs, acc) ==
    IF cs = <<>> THEN acc
    ELSE IF Head(cs) = "_" THEN DigitRunVal(Tail(cs), acc)
    ELSE DigitRunVal(Tail(cs), 10 * acc + DigitVal(Head(cs)))

\* int(str): surrounding whitespace stripped, an optional sign, decimal digits
ParseInt(chars) ==
    LET body == RStrip(LStrip(chars))
        signed == body # <<>> /\ Head(body) \in {"+", "-"}
        digs == IF signed THEN Tail(body) ELSE body
    IN  IF IsDigitRun(digs)
        THEN Ok(IF signed /\ Head(body) = "-"
                THEN -DigitRunVal(digs, 0)
                ELSE DigitRunVal(digs, 0))
        ELSE Raise("ValueError")

\* int(float) truncates toward zero
Trunc(a, d) == IF a >= 0 THEN a \div d ELSE -((-a) \div d)

PyInt(v) ==
    CASE v.t \in {"int", "bool"} -> Ok(v.n)
      [] v.t = "str" -> ParseInt(v.s)
      [] v.t = "float" -> Ok(Trunc(v.n, 10))
      [] v.t = "inf" -> Raise("OverflowError")
      [] v.t = "nan" -> Raise("ValueError")
      [] OTHER -> Raise("TypeError")

(***************************************************************************)
(* base64.b64decode(s) with its default validate=False, as                 *)
(* binascii.a2b_base64 computes it: characters outside the alphabet are    *)
(* skipped, each data character adds six bits, "=" ends the data once the  *)
(* current quad holds two or three characters and enough pads were seen.   *)
(* A quad left open at the end raises binascii.Error, a ValueError.        *)
(***************************************************************************)
B64Alphabet ==
    <<"A", "B", "C", "D", "E", "F", "G", "H", "I", "J", "K", "L", "M",
      "N", "O", "P", "Q", "R", "S", "T", "U", "V", "W", "X", "Y", "Z",
      "a", "b", "c", "d", "e", "f", "g", "h", "i", "j", "k", "l", "m",
      "n", "o", "p", "q", "r", "s", "t", "u", "v", "w", "x", "y", "z",
      "0", "1", "2", "3", "4", "5", "6", "7", "8", "9", "+", "/">>

IsB64Char(c) == \E i \in 1..64 : B64Alphabet[i] = c
B64Val(c) == (CHOOSE i \in 1..64 : B64Alphabet[i] = c) - 1

\* one step per character; quad = characters held in the open quad,
\* left = the bits left over from them, pads = consecutive "=" seen
RECURSIVE A2bBase64(_, _, _, _, _)
A2bBase64(chars, quad, left, pads, out) ==
    IF chars = <<>>
    THEN IF quad = 0 THEN Ok(out) ELSE Raise("binascii.Error")
    ELSE LET c == Head(chars)
             rest == Tail(chars)
         IN  IF c = "="
             THEN IF quad < 2
                  THEN A2bBase64(rest, quad, left, pads, out)
                  ELSE IF quad + pads + 1 >= 4
                  THEN Ok(out)
                  ELSE A2bBase64(rest, quad, left, pads + 1, out)
             ELSE IF ~IsB64Char(c)
             THEN A2bBase64(rest, quad, left, pads, out)
             ELSE LET v == B64Val(c)
                  IN  CASE quad = 0 -> A2bBase64(rest, 1, v, 0, out)
                        [] quad = 1 ->
                            A2bBase64(rest, 2, v % 16, 0,
                                      Append(out, left * 4 + v \div 16))
                        [] quad = 2 ->
                            A2bBase64(rest, 3, v % 4, 0,
                                      Append(out, left * 16 + v \div 4))
                        [] OTHER ->
                            A2bBase64(rest, 0, 0, 0,
                                      Append(out, left * 64 + v))

b64decode(chars) == A2bBase64(chars, 0, 0, 0, <<>>)

(***************************************************************************)
(* The five field decoders.  Each takes the parsed_data being built and    *)
(* the raw data and gives [pd, exc]: parsed_data afterwards and the        *)
(* exception that leaves the method ("" when none does).                   *)
(***************************************************************************)
Done(pd) == [pd |-> pd, exc |-> ""]
Propagate(pd, e) == [pd |-> pd, exc |-> e]

\* faulty variant: only TypeError is caught
BatteryCaughtTypeError == {"TypeError"}

\* except (ValueError, TypeError); binascii.Error is a ValueError
BatteryCaught == {"ValueError", "TypeError", "binascii.Error"}

\* faulty variant: the lower clamp is lost
_process_battery_no_floor(pd, raw) ==
    IF "163" \notin DOMAIN raw THEN Done(pd)
    ELSE LET battery == PyInt(raw["163"])
         IN  IF battery.exc = ""
             THEN Done([pd EXCEPT !.battery = Some(Min(100, battery.val))])
             ELSE IF battery.exc \in BatteryCaught
             THEN Done(pd)
             ELSE Propagate(pd, battery.exc)

_process_battery(pd, raw) ==
    IF "163" \notin DOMAIN raw THEN Done(pd)
    ELSE LET battery == PyInt(raw["163"])
         IN  IF battery.exc = ""
             THEN Done([pd EXCEPT !.battery = Some(Max(0, Min(100, battery.val)))])
             ELSE IF battery.exc \in BatteryCaught
             THEN Done(pd)
             ELSE Propagate(pd, battery.exc)

\* faulty variant: the quotient is rounded, not truncated
WaterPctRounded(raw_value) == Min(100, (raw_value * 100 + 127) \div 255)

\* min(100, int((raw_value * 100) / 255)); the float quotient truncated is
\* the integer quotient for every byte 0..255
WaterPct(raw_value) == Min(100, (raw_value * 100) \div 255)

\* the whole body is under "except Exception"
_process_water_tank(pd, raw) ==
    IF "167" \notin DOMAIN raw THEN Done(pd)
    ELSE LET base64_data == raw["167"]
         IN  IF ~IsInstanceStr(base64_data) THEN Done(pd)
             ELSE LET binary_data == b64decode(base64_data.s)
                  IN  IF binary_data.exc # "" THEN Done(pd)
                      ELSE IF Len(binary_data.val) > 4
                      THEN Done([pd EXCEPT
                                  !.water_tank = Some(WaterPct(binary_data.val[5]))])
                      ELSE Done(pd)

\* faulty variant: the index is off by one (names[speed_raw - 1])
_process_clean_speed_off_by_one(pd, raw) ==
    IF "158" \notin DOMAIN raw THEN Done(pd)
    ELSE LET speed_raw == raw["158"]
         IN  IF IsInstanceInt(speed_raw)
                /\ 0 <= speed_raw.n /\ speed_raw.n < Len(CLEAN_SPEED_NAMES)
             THEN Done([pd EXCEPT
                         !.clean_speed =
                            Some(CLEAN_SPEED_NAMES[((speed_raw.n + 3) % 4) + 1])])
             ELSE Done(pd)

_process_clean_speed(pd, raw) ==
    IF "158" \notin DOMAIN raw THEN Done(pd)
    ELSE LET speed_raw == raw["158"]
         IN  IF IsInstanceInt(speed_raw)
                /\ 0 <= speed_raw.n /\ speed_raw.n < Len(CLEAN_SPEED_NAMES)
             THEN Done([pd EXCEPT
                         !.clean_speed = Some(CLEAN_SPEED_NAMES[speed_raw.n + 1])])
             ELSE Done(pd)

_process_work_status(pd, raw) ==
    IF "153" \notin DOMAIN raw THEN Done(pd)
    ELSE LET status_raw == raw["153"]
         IN  IF IsInstanceInt(status_raw) /\ status_raw.n \in DOMAIN WORK_STATUS_MAP
             THEN Done([pd EXCEPT
                         !.work_status = Some(WORK_STATUS_MAP[status_raw.n])])
             ELSE Done(pd)

\* faulty variant: a falsy value is treated like a missing key (raw_data.get("152"))
_process_play_pause_get(pd, raw) ==
    IF "152" \notin DOMAIN raw \/ ~PyBool(raw["152"]) THEN Done(pd)
    ELSE Done([pd EXCEPT !.play_pause = Some(PyBool(raw["152"]))])

_process_play_pause(pd, raw) ==
    IF "152" \notin DOMAIN raw THEN Done(pd)
    ELSE Done([pd EXCEPT !.play_pause = Some(PyBool(raw["152"]))])

(***************************************************************************)
(* _process_data: a fresh parsed_data, the found / missing classification  *)
(* of MONITORED_KEYS, then the five decoders in order.  An exception that  *)
(* leaves a decoder leaves _process_data and skips the decoders after it.  *)
(***************************************************************************)
DeviceId == "device"

\* faulty variant: a key counts as present only when its value is truthy
InRawTruthy(raw, key) == key \in DOMAIN raw /\ PyBool(raw[key])

InRaw(raw, key) == key \in DOMAIN raw

KeysFound(raw) == SelectSeq(MONITORED_KEYS, LAMBDA key : InRaw(raw, key))

\* faulty variant: the else is lost and every key is appended to the missing list
KeysMissingNoElse(raw) == MONITORED_KEYS

KeysMissing(raw) == SelectSeq(MONITORED_KEYS, LAMBDA key : ~InRaw(raw, key))

\* faulty variant: the sequence number of the snapshot is read off the clock
FreshParsedCountsByClock(raw, count, now) ==
    [device_id |-> DeviceId,
     battery |-> None,
     water_tank |-> None,
     clean_speed |-> None,
     work_status |-> None,
     play_pause |-> None,
     raw_keys |-> DOMAIN raw,
     monitored_keys_found |-> KeysFound(raw),
     monitored_keys_missing |-> KeysMissing(raw),
     last_update |-> now,
     update_count |-> now]

\* faulty variant: the dict is kept from cycle to cycle and the decoded
\* fields are not reset
FreshParsedKeepsFields(raw, count, now) ==
    [device_id |-> DeviceId,
     battery |-> IF parsed_data = <<>> THEN None ELSE parsed_data.battery,
     water_tank |-> IF parsed_data = <<>> THEN None ELSE parsed_data.water_tank,
     clean_speed |-> IF parsed_data = <<>> THEN None ELSE parsed_data.clean_speed,
     work_status |-> IF parsed_data = <<>> THEN None ELSE parsed_data.work_status,
     play_pause |-> IF parsed_data = <<>> THEN None ELSE parsed_data.play_pause,
     raw_keys |-> DOMAIN raw,
     monitored_keys_found |-> KeysFound(raw),
     monitored_keys_missing |-> KeysMissing(raw),
     last_update |-> now,
     update_count |-> count]

FreshParsed(raw, count, now) ==
    [device_id |-> DeviceId,
     battery |-> None,
     water_tank |-> None,
     clean_speed |-> None,
     work_status |-> None,
     play_pause |-> None,
     raw_keys |-> DOMAIN raw,
     monitored_keys_found |-> KeysFound(raw),
     monitored_keys_missing |-> KeysMissing(raw),
     last_update |-> now,
     update_count |-> count]

\* each decoder runs unless an exception is already on its way out
_process_data(raw, count, now) ==
    LET r1 == _process_battery(FreshParsed(raw, count, now), raw)
        r2 == IF r1.exc # "" THEN r1 ELSE _process_water_tank(r1.pd, raw)
        r3 == IF r2.exc # "" THEN r2 ELSE _process_clean_speed(r2.pd, raw)
        r4 == IF r3.exc # "" THEN r3 ELSE _process_work_status(r3.pd, raw)
    IN  IF r4.exc # "" THEN r4 ELSE _process_play_pause(r4.pd, raw)

(***************************************************************************)
(* The raw data of _fetch_eufy_data: the mock reply, with the battery and  *)
(* the clean speed it draws at random.                                     *)
(***************************************************************************)
Mock167 ==
    StrV(<<"P", "A", "o", "6", "C", "g", "U", "I", "A", "B", "C", "4", "A",
         "h", "g", "E", "G", "F", "R", "K", "J", "w", "=", "=">>)

Mock177 ==
    StrV(<<"M", "g", "o", "w", "C", "A", "E", "Q", "A", "B", "g", "E", "G",
         "l", "V", "K", "F", "w", "=", "=">>)

Mock178 ==
    StrV(<<"O", "A", "o", "2", "C", "A", "E", "Q", "A", "B", "g", "E", "G",
         "l", "V", "l", "I", "w", "=", "=">>)

Mock168 ==
    StrV(<<"Q", "W", "N", "j", "Z", "X", "N", "z", "b", "3", "J", "p", "Z",
         "X", "M", "g", "Z", "G", "F", "0", "Y", "S", "B", "o", "Z", "X",
         "J", "l">>)

Mock154 ==
    StrV(<<"Q", "2", "x", "l", "Y", "W", "5", "p", "b", "m", "c", "g", "c",
         "G", "F", "y", "Y", "W", "1", "l", "d", "G", "V", "y", "c", "w",
         "=", "=">>)

Mock155 ==
    StrV(<<"R", "G", "l", "y", "Z", "W", "N", "0", "a", "W", "9", "u", "I",
         "G", "R", "h", "d", "G", "E", "=">>)

Mock173 ==
    StrV(<<"R", "2", "8", "g", "a", "G", "9", "t", "Z", "S", "B", "k", "Y",
         "X", "R", "h">>)

MockData(battery, speed, ts) ==
    [k \in {"163", "167", "177", "178", "168", "153", "152", "158", "154",
            "155", "160", "173", "timestamp"} |->
        CASE k = "163" -> IntV(battery)
          [] k = "167" -> Mock167
          [] k = "177" -> Mock177
          [] k = "178" -> Mock178
          [] k = "168" -> Mock168
          [] k = "153" -> IntV(5)
          [] k = "152" -> BoolV(TRUE)
          [] k = "158" -> IntV(speed)
          [] k = "154" -> Mock154
          [] k = "155" -> Mock155
          [] k = "160" -> BoolV(FALSE)
          [] k = "173" -> Mock173
          [] OTHER -> IntV(ts)]

(***************************************************************************)
(* Raw samples.  The fetch is a stand-in for the device API, so a cycle    *)
(* may be handed any mapping; the sets below enumerate the cases.          *)
(***************************************************************************)
RawInts == (0 - RawIntSpan)..(100 + RawIntSpan)

SeqsUpTo(S, n) == UNION {[1..k -> S] : k \in 0..n}

NonIntValues ==
    {BoolV(TRUE), BoolV(FALSE), NoneV, InfV, NanV}
        \cup {FloatV(x) : x \in {-15, -5, 0, 5, 20, 25, 859, 1005}}
        \cup {StrV(cs) : cs \in {<<>>, <<"2">>, <<"5">>, <<"0">>,
                                 <<"t", "u", "r", "b", "o">>,
                                 <<"f", "a", "l", "s", "e">>}}

AnyValues == {IntV(i) : i \in RawInts} \cup NonIntValues

\* strings tried as a battery reading
BatteryStrings ==
    {StrV(cs) : cs \in SeqsUpTo({"8", "5", "0", "-", "+", " ", "_", "a", "."},
                                MaxStrLen)}

\* "AAAAA" c5 c6 "=": five bytes, the fifth made of c5 and c6
FiveByteStrings ==
    {StrV(<<"A", "A", "A", "A", "A", B64Alphabet[i], B64Alphabet[j], "=">>) :
        i \in 1..64, j \in 1..64}

\* one full quad, then every short tail of data, pad and stray characters
TailStrings ==
    {StrV(<<"A", "A", "A", "A">> \o cs) :
        cs \in SeqsUpTo({"A", "N", "I", "=", "!"}, MaxTailLen)}

BaseSample == MockData(85, 2, 0)

With(raw, key, v) == [k \in DOMAIN raw \cup {key} |-> IF k = key THEN v ELSE raw[k]]

Without(raw, key) == [k \in DOMAIN raw \ {key} |-> raw[k]]

\* any subset of the monitored keys, with or without the unexpected "timestamp"
KeySamples ==
    {[k \in S |-> BaseSample[k]] : S \in SUBSET (DOMAIN BaseSample)}

BatterySamples ==
    {With(BaseSample, "163", v) : v \in AnyValues \cup BatteryStrings}
        \cup {Without(BaseSample, "163")}

WaterSamples ==
    {With(BaseSample, "167", v) :
        v \in FiveByteStrings \cup TailStrings \cup NonIntValues
              \cup {IntV(7), IntV(0)}}
        \cup {Without(BaseSample, "167")}

SpeedSamples ==
    {With(BaseSample, "158", v) : v \in AnyValues} \cup {Without(BaseSample, "158")}

StatusSamples ==
    {With(BaseSample, "153", v) : v \in AnyValues} \cup {Without(BaseSample, "153")}

PlaySamples ==
    {With(BaseSample, "152", v) : v \in AnyValues} \cup {Without(BaseSample, "152")}

\* the end-to-end sample: five keys, the water tank bytes 00 00 00 00 D2
E2ESample ==
    [k \in {"163", "158", "153", "152", "167"} |->
        CASE k = "163" -> IntV(85)
          [] k = "158" -> IntV(2)
          [] k = "153" -> IntV(5)
          [] k = "152" -> BoolV(TRUE)
          [] OTHER -> StrV(<<"A", "A", "A", "A", "A", "N", "I", "=">>)]

\* per decoded key: missing, or one of a few decodable and undecodable values
Choices(key) ==
    CASE key = "163" ->
            {IntV(85), IntV(150), StrV(<<"a">>), StrV(<<"8", "5">>)}
      [] key = "167" ->
            {E2ESample["167"], StrV(<<"A", "A", "A", "A">>),
             StrV(<<"A", "A", "A", "A", "A", "N", "I">>), IntV(7)}
      [] key = "158" -> {IntV(2), IntV(7), StrV(<<"2">>)}
      [] key = "153" -> {IntV(5), IntV(99), StrV(<<"5">>)}
      [] OTHER -> {BoolV(TRUE), IntV(0), StrV(<<>>), StrV(<<"a">>)}

DecodedKeys == {"163", "167", "158", "153", "152"}

\* a key left out of the sample
Absent == [t |-> "absent", n |-> 0, s |-> <<>>]

WithAbsent(key) == Choices(key) \cup {Absent}

FromChoices(c) == [k \in {d \in DecodedKeys : c[d] # Absent} |-> c[k]]

MixedSamples ==
    {FromChoices([k \in DecodedKeys |->
                    CASE k = "163" -> c163
                      [] k = "167" -> c167
                      [] k = "158" -> c158
                      [] k = "153" -> c153
                      [] OTHER -> c152]) :
        c163 \in WithAbsent("163"), c167 \in WithAbsent("167"),
        c158 \in WithAbsent("158"), c153 \in WithAbsent("153"),
        c152 \in WithAbsent("152")}

\* what the cycles of the coordinator are handed: the mock's dictionary, a
\* sample with five keys that all decode, one whose battery and speed do not
\* decode and whose work status is missing, and one that makes the battery
\* decoder raise
PollSamples ==
    {MockData(80, 0, 0), E2ESample, With(E2ESample, "163", InfV),
     Without(With(With(E2ESample, "163", StrV(<<"a">>)), "158", IntV(7)), "153")}

(***************************************************************************)
(* The coordinator.                                                        *)
(***************************************************************************)
\* __init__
Init ==
    /\ pc = "idle"
    /\ update_count = 0
    /\ raw_data = <<>>
    /\ parsed_data = <<>>
    /\ last_update = None
    /\ returned = None
    /\ outcome = "none"
    /\ clock = 0
    /\ heap = <<parsed_data>>
    /\ snapshots = <<>>
    /\ shut_down = FALSE

\* time.time(): the clock does not run backwards
Readings(from) == {t \in {from, from + 1} : t <= MaxTime}

\* async_setup_entry keeps the coordinator only when the first refresh has
\* returned a snapshot; after a failed first refresh it is dropped
SetUp == snapshots # <<>>

\* _async_update_data up to the await of the fetch: the first refresh of
\* async_setup_entry, or a later refresh of the coordinator it has kept
BeginUpdate ==
    /\ pc = "idle"
    /\ update_count = 0 \/ SetUp
    /\ update_count < MaxUpdates
    /\ update_count' = update_count + 1
    /\ pc' = "fetching"
    /\ UNCHANGED <<raw_data, parsed_data, last_update, returned, outcome, clock,
                   heap, snapshots, shut_down>>

\* _fetch_eufy_data returns: self.raw_data is the reply
_fetch_eufy_data(samples) ==
    /\ pc = "fetching"
    /\ \E sample \in samples : raw_data' = sample
    /\ pc' = "processing"
    /\ UNCHANGED <<update_count, parsed_data, last_update, returned, outcome, clock,
                   heap, snapshots, shut_down>>

\* faulty variant: the handler also drops what the last cycle produced
FetchRaisesResets ==
    /\ pc = "fetching"
    /\ outcome' = "UpdateFailed"
    /\ pc' = "idle"
    /\ parsed_data' = <<>>
    /\ heap' = Append(heap, <<>>)
    /\ returned' = None
    /\ UNCHANGED <<update_count, raw_data, last_update, clock, snapshots, shut_down>>

\* faulty variant: a cycle that fails in the fetch gives its number back
FetchRaisesGivesNumberBack ==
    /\ pc = "fetching"
    /\ outcome' = "UpdateFailed"
    /\ pc' = "idle"
    /\ update_count' = update_count - 1
    /\ UNCHANGED <<raw_data, parsed_data, last_update, returned, clock,
                   heap, snapshots, shut_down>>

\* the fetch raises: _async_update_data turns it into UpdateFailed
FetchRaises ==
    /\ pc = "fetching"
    /\ outcome' = "UpdateFailed"
    /\ pc' = "idle"
    /\ UNCHANGED <<update_count, raw_data, parsed_data, last_update, returned, clock,
                   heap, snapshots, shut_down>>

\* faulty variant: the dict self.parsed_data refers to is refilled in place
RebindInPlace(objects, pd) == [objects EXCEPT ![Len(objects)] = pd]

\* self.parsed_data = {...}: a new dict object, the earlier ones are untouched
Rebind(objects, pd) == Append(objects, pd)

\* _process_data and the rest of _async_update_data: the snapshot is
\* returned, or the exception that left a decoder becomes UpdateFailed
ProcessData ==
    /\ pc = "processing"
    /\ \E t1 \in Readings(clock) : \E t2 \in Readings(t1) :
        LET r == _process_data(raw_data, update_count, t1)
        IN  /\ parsed_data' = r.pd
            /\ heap' = Rebind(heap, r.pd)
            /\ IF r.exc = ""
               THEN /\ last_update' = Some(t2)
                    /\ returned' = Some(r.pd)
                    /\ snapshots' = Append(snapshots,
                                           [ref |-> Len(heap'), raw |-> raw_data,
                                            data |-> r.pd])
                    /\ outcome' = "ok"
                    /\ clock' = t2
               ELSE /\ outcome' = "UpdateFailed"
                    /\ clock' = t1
                    /\ UNCHANGED <<last_update, returned, snapshots>>
    /\ pc' = "idle"
    /\ UNCHANGED <<update_count, raw_data, shut_down>>

\* the processing step entered once more on the raw data and the
\* update_count of the cycle that has just returned: ProcessData then runs
\* _process_data a second time, at the same or a later reading of the clock
ProcessDataAgain ==
    /\ pc = "idle"
    /\ outcome = "ok"
    /\ Len(snapshots) = 1
    /\ pc' = "processing"
    /\ UNCHANGED <<update_count, raw_data, parsed_data, last_update, returned,
                   outcome, clock, heap, snapshots, shut_down>>

\* async_shutdown, awaited by async_unload_entry: it logs and writes no field
async_shutdown ==
    /\ SetUp
    /\ ~shut_down
    /\ shut_down' = TRUE
    /\ UNCHANGED <<pc, update_count, raw_data, parsed_data, last_update, returned,
                   outcome, clock, heap, snapshots>>

Next ==
    \/ BeginUpdate
    \/ _fetch_eufy_data(PollSamples)
    \/ FetchRaises
    \/ ProcessData
    \/ async_shutdown

Spec == Init /\ [][Next]_vars

(***************************************************************************)
(* The aggregator alone: the first cycle has fetched one sample of a       *)
(* family and _process_data runs on it.                                    *)
(***************************************************************************)
InitDecode(samples) ==
    /\ pc = "processing"
    /\ update_count = 1
    /\ raw_data \in samples
    /\ parsed_data = <<>>
    /\ last_update = None
    /\ returned = None
    /\ outcome = "none"
    /\ clock = 0
    /\ heap = <<parsed_data>>
    /\ snapshots = <<>>
    /\ shut_down = FALSE

\* which keys are present, and mixes of good and bad values
SpecKeys ==
    InitDecode(KeySamples \cup MixedSamples \cup {E2ESample})
        /\ [][ProcessData]_vars

\* the five decoded keys: each missing, decodable or undecodable
SpecMixed == InitDecode(MixedSamples \cup {E2ESample}) /\ [][ProcessData]_vars

\* the samples of the coordinator's cycles, and the mixes of good and bad
\* values under "163", "167" and "158" with "153" and "152" left out
TwiceSamples ==
    PollSamples \cup
        {raw \in MixedSamples : "153" \notin DOMAIN raw /\ "152" \notin DOMAIN raw}

\* _process_data run by the cycle, then once more
NextTwice == ProcessData \/ ProcessDataAgain

\* the aggregator run twice on one raw sample and one sequence number
SpecTwice == InitDecode(TwiceSamples) /\ [][NextTwice]_vars

\* key "163"
SpecBattery == InitDecode(BatterySamples) /\ [][ProcessData]_vars

\* key "167"
SpecWater == InitDecode(WaterSamples) /\ [][ProcessData]_vars

\* keys "158", "153" and "152"
SpecFields ==
    InitDecode(SpeedSamples \cup StatusSamples \cup PlaySamples)
        /\ [][ProcessData]_vars

\* a cycle has run _process_data on raw_data and nothing has happened since
Processed == pc = "idle" /\ outcome # "none" /\ parsed_data # <<>>

(***************************************************************************)
(* Properties.                                                             *)
(***************************************************************************)
Range(seq) == {seq[i] : i \in DOMAIN seq}

Count(seq, x) == Cardinality({i \in DOMAIN seq : seq[i] = x})

ExpectedKeySet == Range(MONITORED_KEYS)

\* position of an expected key in MONITORED_KEYS
Pos(key) == CHOOSE i \in DOMAIN MONITORED_KEYS : MONITORED_KEYS[i] = key

InExpectedOrder(seq) ==
    \A i, j \in DOMAIN seq : i < j => Pos(seq[i]) < Pos(seq[j])

Has(key) == key \in DOMAIN raw_data

\* C1: after a poll cycle, monitored_keys_found and monitored_keys_missing
\* partition the 12 monitored keys: every monitored key is in exactly one
\* of the two lists, once, and neither list holds any other key, whatever
\* keys the raw sample has.
C1_FoundMissingPartition ==
    Processed =>
        LET found == parsed_data.monitored_keys_found
            missing == parsed_data.monitored_keys_missing
        IN  /\ Cardinality(ExpectedKeySet) = 12
            /\ \A key \in ExpectedKeySet :
                    Count(found, key) + Count(missing, key) = 1
            /\ Range(found) \cup Range(missing) \subseteq ExpectedKeySet
            /\ Len(found) + Len(missing) = 12

\* a sample with some monitored keys, not all, and the unexpected "timestamp"
C1_Witness ==
    /\ Processed
    /\ Has("timestamp")
    /\ Len(parsed_data.monitored_keys_found) = 5
    /\ Len(parsed_data.monitored_keys_missing) = 7

\* a string with no digit in it, None and NaN: values that are no number
NonNumeric(v) ==
    \/ v.t \in {"none", "nan"}
    \/ v.t = "str" /\ \A i \in DOMAIN v.s : ~IsDigit(v.s[i])

\* C2: the found list is the monitored keys that are keys of the raw
\* sample and the missing list those that are not, both in MONITORED_KEYS
\* order; only presence counts: a present key whose value does not decode
\* (key "163" with a non-numeric string, key "158" with 7) is found while
\* its typed field is absent.
C2_FoundIsPresence ==
    Processed =>
        LET found == parsed_data.monitored_keys_found
            missing == parsed_data.monitored_keys_missing
        IN  /\ Range(found) = {key \in ExpectedKeySet : Has(key)}
            /\ Range(missing) = {key \in ExpectedKeySet : ~Has(key)}
            /\ InExpectedOrder(found)
            /\ InExpectedOrder(missing)
            /\ (Has("163") /\ raw_data["163"].t = "str" /\ NonNumeric(raw_data["163"]))
                    => "163" \in Range(found) /\ parsed_data.battery = None
            /\ (Has("158") /\ raw_data["158"] = IntV(7))
                    => "158" \in Range(found) /\ parsed_data.clean_speed = None

\* both undecodable values at once, beside a decodable one
C2_Witness ==
    /\ Processed
    /\ Has("163") /\ raw_data["163"] = StrV(<<"a">>)
    /\ Has("158") /\ raw_data["158"] = IntV(7)
    /\ Has("152") /\ raw_data["152"] = IntV(0)
    /\ ~Has("153")
    /\ parsed_data.monitored_keys_found = <<"163", "152", "158">>
    /\ parsed_data.battery = None
    /\ parsed_data.clean_speed = None

\* C3: for every raw value of key "163" the battery field is absent or an
\* integer in 0..100; an integer n gives n clamped into 0..100 (-5 gives 0,
\* 150 gives 100); a non-numeric value gives absent and the cycle still
\* succeeds.
C3_BatteryClamped ==
    Processed =>
        /\ parsed_data.battery \in {None} \cup {Some(i) : i \in 0..100}
        /\ (Has("163") /\ raw_data["163"].t = "int") =>
                LET n == raw_data["163"].n
                IN  parsed_data.battery =
                        Some(IF n < 0 THEN 0 ELSE IF n > 100 THEN 100 ELSE n)
        /\ (Has("163") /\ raw_data["163"] = IntV(-5)) => parsed_data.battery = Some(0)
        /\ (Has("163") /\ raw_data["163"] = IntV(150)) => parsed_data.battery = Some(100)
        /\ (Has("163") /\ NonNumeric(raw_data["163"])) =>
                parsed_data.battery = None /\ outcome = "ok"

\* 150 clamped to 100
C3_Witness ==
    /\ Processed
    /\ Has("163") /\ raw_data["163"] = IntV(150)
    /\ parsed_data.battery = Some(100)
    /\ outcome = "ok"

\* RFC 4648 base64: alphabet characters in groups of four, "=" only as the
\* last one or two characters
WellFormedB64(cs) ==
    /\ Len(cs) % 4 = 0
    /\ \A i \in DOMAIN cs :
        \/ IsB64Char(cs[i])
        \/ /\ cs[i] = "="
           /\ i >= Len(cs) - 1
           /\ cs[Len(cs)] = "="

\* bytes a well-formed string encodes
EncodedLen(cs) ==
    3 * (Len(cs) \div 4) - Cardinality({i \in DOMAIN cs : cs[i] = "="})

\* the byte at offset 4 sits in the low four bits of the sixth character
\* and the high four bits of the seventh
EncodedByte4(cs) == (B64Val(cs[6]) % 16) * 16 + B64Val(cs[7]) \div 4

\* C4: when key "167" holds valid base64 of at least 5 bytes, water_tank is
\* min(100, floor(b * 100 / 255)) for the byte b at offset 4, for every b in
\* 0..255; it lies in 0..100; 210 gives 82, 255 gives 100, 0 gives 0.
C4_WaterTankScaled ==
    (/\ Processed
     /\ Has("167") /\ IsInstanceStr(raw_data["167"])
     /\ WellFormedB64(raw_data["167"].s)
     /\ EncodedLen(raw_data["167"].s) >= 5) =>
            LET b == EncodedByte4(raw_data["167"].s)
            IN  /\ b \in 0..255
                /\ parsed_data.water_tank # None
                /\ LET r == parsed_data.water_tank[1]
                   IN  /\ r \in 0..100
                       /\ r * 255 <= b * 100
                       /\ b * 100 < (r + 1) * 255
                       /\ (b = 210 => r = 82)
                       /\ (b = 255 => r = 100)
                       /\ (b = 0 => r = 0)

\* the bytes 00 00 00 00 D2
C4_Witness ==
    /\ Processed
    /\ Has("167")
    /\ raw_data["167"] = StrV(<<"A", "A", "A", "A", "A", "N", "I", "=">>)
    /\ parsed_data.water_tank = Some(82)

\* C5: water_tank is absent whenever key "167" is missing, its value is not
\* a base64 string, the base64 is malformed, or fewer than 5 bytes are
\* encoded; and the cycle does not fail.
C5_WaterTankAbsentOnBadInput ==
    Processed =>
        /\ outcome = "ok"
        /\ (\/ ~Has("167")
            \/ ~IsInstanceStr(raw_data["167"])
            \/ ~WellFormedB64(raw_data["167"].s)
            \/ EncodedLen(raw_data["167"].s) <= 4)
                => parsed_data.water_tank = None

\* C6: clean_speed is the i-th name of [quiet, standard, turbo, max] when
\* the raw value of key "158" is an integer i with 0 <= i < 4 (2 gives
\* "turbo"), and absent for every other input: a negative index, an index
\* of 4 or more, or a value that is no integer (a boolean, a string).
C6_CleanSpeedByIndex ==
    Processed =>
        /\ (Has("158") /\ raw_data["158"] = IntV(2))
                => parsed_data.clean_speed = Some("turbo")
        /\ IF Has("158") /\ raw_data["158"].t = "int"
                /\ raw_data["158"].n >= 0 /\ raw_data["158"].n < 4
           THEN parsed_data.clean_speed
                    = Some(<<"quiet", "standard", "turbo", "max">>[raw_data["158"].n + 1])
           ELSE parsed_data.clean_speed = None

Truthy(v) ==
    \/ v = BoolV(TRUE)
    \/ v.t \in {"int", "float"} /\ v.n # 0
    \/ v.t = "str" /\ v.s # <<>>
    \/ v.t \in {"inf", "nan"}

\* C8: play_pause is absent if and only if key "152" is missing; when the
\* key is present, whatever its value, the field is the boolean truthiness
\* of the value and the cycle does not fail.
C8_PlayPauseTruthiness ==
    Processed =>
        /\ (parsed_data.play_pause = None) <=> ~Has("152")
        /\ Has("152") => parsed_data.play_pause = Some(Truthy(raw_data["152"]))
        /\ outcome = "ok"

\* a falsy value is still a value: the integer 0 gives False, not absent
C8_Witness ==
    /\ Processed
    /\ Has("152") /\ raw_data["152"] = IntV(0)
    /\ parsed_data.play_pause = Some(FALSE)
    /\ outcome = "ok"

\* the five typed fields of the end-to-end sample
E2EFields ==
    /\ parsed_data.battery = Some(85)
    /\ parsed_data.clean_speed = Some("turbo")
    /\ parsed_data.work_status = Some("cleaning")
    /\ parsed_data.play_pause = Some(TRUE)
    /\ parsed_data.water_tank = Some(82)

\* C9 as stated: for the sample {"163": 85, "158": 2, "153": 5, "152": true,
\* "167": base64 of 00 00 00 00 D2} one cycle gives battery 85, clean_speed
\* "turbo", work_status "cleaning", play_pause true, water_tank 82, the
\* found list ["163","167","158","153","152"] in that order and the other 7
\* monitored keys in the missing list.
C9_EndToEndAsStated ==
    (Processed /\ raw_data = E2ESample) =>
        /\ E2EFields
        /\ parsed_data.monitored_keys_found = <<"163", "167", "158", "153", "152">>
        /\ Range(parsed_data.monitored_keys_missing)
                = ExpectedKeySet \ {"163", "167", "158", "153", "152"}
        /\ Len(parsed_data.monitored_keys_missing) = 7

\* C9 amended: the same, with the found list in MONITORED_KEYS order,
\* ["163","167","153","152","158"], and the missing list
\* ["177","178","168","154","155","160","173"].
C9_EndToEnd ==
    (Processed /\ raw_data = E2ESample) =>
        /\ outcome = "ok"
        /\ E2EFields
        /\ parsed_data.monitored_keys_found = <<"163", "167", "153", "152", "158">>
        /\ parsed_data.monitored_keys_missing
                = <<"177", "178", "168", "154", "155", "160", "173">>

\* the end-to-end sample has been processed and its snapshot returned
C9_Witness ==
    /\ Processed
    /\ raw_data = E2ESample
    /\ returned = Some(parsed_data)
    /\ parsed_data.update_count = 1

\* integers, booleans and strings only
PlainSample(raw) == \A k \in DOMAIN raw : raw[k].t \in {"int", "bool", "str"}

\* the raw sample with one key set to another value, or taken out
Replaced(raw, key, v) == IF v = Absent THEN Without(raw, key) ELSE With(raw, key, v)

\* the decoded fields other than the one read from key
OtherFields(pd, key) ==
    <<IF key = "163" THEN None ELSE pd.battery,
      IF key = "167" THEN None ELSE pd.water_tank,
      IF key = "158" THEN None ELSE pd.clean_speed,
      IF key = "153" THEN None ELSE pd.work_status,
      IF key = "152" THEN None ELSE pd.play_pause>>

\* values of the model's samples that the decoder of the key cannot decode
Undecodable(key, v) ==
    CASE key = "163" -> v = StrV(<<"a">>)
      [] key = "167" ->
            v \in {StrV(<<"A", "A", "A", "A">>),
                   StrV(<<"A", "A", "A", "A", "A", "N", "I">>), IntV(7)}
      [] key = "158" -> v \in {IntV(7), StrV(<<"2">>)}
      [] key = "153" -> v \in {IntV(99), StrV(<<"5">>)}
      [] OTHER -> FALSE

FieldOf(pd, key) ==
    CASE key = "163" -> pd.battery
      [] key = "167" -> pd.water_tank
      [] key = "158" -> pd.clean_speed
      [] key = "153" -> pd.work_status
      [] OTHER -> pd.play_pause

\* C10: the five decoders are independent within a cycle.  For a sample of
\* integers, booleans and strings the cycle succeeds; a key with an
\* undecodable value leaves its own field absent; and each of the other
\* four fields is what it would be with any other value, or none, under
\* that key.
C10_DecodersIndependent ==
    (Processed /\ PlainSample(raw_data)) =>
        /\ outcome = "ok"
        /\ returned = Some(parsed_data)
        /\ \A key \in DecodedKeys :
            /\ (Has(key) /\ Undecodable(key, raw_data[key]))
                    => FieldOf(parsed_data, key) = None
            /\ \A v \in WithAbsent(key) :
                    OtherFields(_process_data(Replaced(raw_data, key, v),
                                                  update_count,
                                                  parsed_data.last_update).pd, key)
                        = OtherFields(parsed_data, key)

\* three undecodable values beside two decodable ones
C10_Witness ==
    /\ Processed
    /\ Has("163") /\ raw_data["163"] = StrV(<<"a">>)
    /\ Has("167") /\ raw_data["167"] = StrV(<<"A", "A", "A", "A", "A", "N", "I">>)
    /\ Has("158") /\ raw_data["158"] = IntV(2)
    /\ Has("153") /\ raw_data["153"] = IntV(99)
    /\ Has("152") /\ raw_data["152"] = BoolV(TRUE)
    /\ outcome = "ok"
    /\ parsed_data.battery = None
    /\ parsed_data.water_tank = None
    /\ parsed_data.clean_speed = Some("turbo")
    /\ parsed_data.work_status = None
    /\ parsed_data.play_pause = Some(TRUE)

\* ---------------------------------------------------------------------
\* Properties of the poll cycle, checked under Spec

\* the step in which a cycle ends because the fetch raised
FetchFailed == pc = "fetching" /\ pc' = "idle"

\* C11: when the fetch fails the cycle is reported as UpdateFailed, the
\* processing step does not run in that cycle (no dict is built and what
\* parsed_data holds still carries an earlier cycle's number), and the
\* snapshot produced before is unchanged in every field: values, found and
\* missing lists, sequence number and timestamp.
C11_FetchFailureKeepsSnapshot ==
    [][FetchFailed =>
        /\ outcome' = "UpdateFailed"
        /\ heap' = heap
        /\ parsed_data' = parsed_data
        /\ parsed_data' # <<>> => parsed_data'.update_count < update_count'
        /\ returned' = returned
        /\ snapshots' = snapshots
        /\ last_update' = last_update]_vars

\* the second cycle failed in the fetch and the first cycle's snapshot, with
\* sequence number 1, is still what the coordinator holds and has returned
C11_Witness ==
    /\ pc = "idle"
    /\ outcome = "UpdateFailed"
    /\ update_count = 2
    /\ returned # None
    /\ returned[1].update_count = 1
    /\ returned[1].battery # None
    /\ parsed_data = returned[1]
    /\ Len(heap) = 2

WithoutTimestamp(pd) == [pd EXCEPT !.last_update = 0]

\* C13: processing the identical raw sample with the identical sequence
\* number twice yields two snapshots that agree on every field except the
\* timestamp: device id, the five decoded fields, raw keys, found and
\* missing lists and sequence number.
C13_Idempotent ==
    Len(snapshots) = 2 =>
        /\ snapshots[1].raw = snapshots[2].raw
        /\ update_count = snapshots[1].data.update_count
        /\ WithoutTimestamp(snapshots[1].data) = WithoutTimestamp(snapshots[2].data)

\* the second run happened at a later reading of the clock than the first,
\* on a sample with a key that decodes, a key that does not and a missing key
C13_Witness ==
    /\ Len(snapshots) = 2
    /\ snapshots[1].data.last_update # snapshots[2].data.last_update
    /\ snapshots[2].data.battery # None
    /\ snapshots[2].data.water_tank = None
    /\ "167" \in DOMAIN snapshots[2].raw
    /\ "153" \notin DOMAIN snapshots[2].raw

\* ---------------------------------------------------------------------
\* Properties of successive poll cycles, checked under Spec

\* the decoded fields and the key lists of a snapshot
SnapshotFields(pd) ==
    <<pd.battery, pd.water_tank, pd.clean_speed, pd.work_status, pd.play_pause,
      pd.raw_keys, pd.monitored_keys_found, pd.monitored_keys_missing>>

\* the key is not in the raw sample, or its value does not decode
MissingOrUndecodable(raw, key) ==
    key \notin DOMAIN raw \/ Undecodable(key, raw[key])

\* C14: no value carries over between cycles.  The fields and the found and
\* missing lists of the snapshot a cycle returns are a function of that
\* cycle's raw sample alone: cycles handed the same raw sample return the
\* same fields whatever the cycles before them saw, and a field whose key is
\* missing or undecodable in the cycle's raw sample is absent, also when
\* the cycle before returned a value for it.
C14_NoCarryOver ==
    /\ \A i, j \in DOMAIN snapshots :
            snapshots[i].raw = snapshots[j].raw
                => SnapshotFields(snapshots[i].data) = SnapshotFields(snapshots[j].data)
    /\ \A i \in DOMAIN snapshots : \A key \in DecodedKeys :
            MissingOrUndecodable(snapshots[i].raw, key)
                => FieldOf(snapshots[i].data, key) = None
    /\ \A i \in DOMAIN snapshots :
            /\ snapshots[i].data.raw_keys = DOMAIN snapshots[i].raw
            /\ Range(snapshots[i].data.monitored_keys_found)
                    = Range(MONITORED_KEYS) \cap DOMAIN snapshots[i].raw
            /\ Range(snapshots[i].data.monitored_keys_missing)
                    = Range(MONITORED_KEYS) \ DOMAIN snapshots[i].raw

\* battery, clean speed and work status had values in one cycle and are
\* absent in the next, whose sample has "163" and "158" undecodable and
\* "153" missing; and the same sample was seen by two cycles
C14_Witness ==
    /\ Len(snapshots) = 3
    /\ snapshots[1].data.battery # None
    /\ snapshots[1].data.clean_speed # None
    /\ snapshots[1].data.work_status # None
    /\ snapshots[1].data.play_pause # None
    /\ "163" \in DOMAIN snapshots[2].raw
    /\ "158" \in DOMAIN snapshots[2].raw
    /\ "153" \notin DOMAIN snapshots[2].raw
    /\ snapshots[2].data.battery = None
    /\ snapshots[2].data.clean_speed = None
    /\ snapshots[2].data.work_status = None
    /\ snapshots[2].data.play_pause = snapshots[1].data.play_pause
    /\ snapshots[3].raw = snapshots[1].raw

\* C15: a snapshot returned by a completed cycle is never modified
\* afterwards: whatever later cycles do (fetch, rebuild parsed_data, run the
\* decoders, succeed or fail), the object that was returned still holds
\* what it held when it was returned, and each cycle has built its result
\* in a dict object of its own.
C15_ReturnedSnapshotsFrozen ==
    /\ \A i \in DOMAIN snapshots :
            /\ snapshots[i].ref \in DOMAIN heap
            /\ heap[snapshots[i].ref] = snapshots[i].data
    /\ \A i, j \in DOMAIN snapshots :
            i # j => snapshots[i].ref # snapshots[j].ref
    /\ parsed_data = heap[Len(heap)]

\* after the first snapshot was returned, a cycle failed in a decoder after
\* rebuilding parsed_data and the next one returned a different snapshot
C15_Witness ==
    /\ Len(snapshots) = 2
    /\ update_count = 3
    /\ Len(heap) = 4
    /\ pc = "idle"
    /\ heap[3].update_count = 2
    /\ heap[3].battery = None
    /\ SnapshotFields(snapshots[2].data) # SnapshotFields(snapshots[1].data)
    /\ heap[snapshots[1].ref] = snapshots[1].data

\* the step in which a cycle starts
CycleStarts == pc = "idle" /\ pc' = "fetching"

\* C16: update_count starts at 0 and is incremented by exactly 1 at the
\* start of every cycle, before the fetch, and at no other step, so a cycle
\* that fails has used up a number and the counter never decreases; the
\* update_count stored in a snapshot is the number of cycles started when
\* it is returned, and is strictly greater than the one stored in the
\* snapshot before it.
C16_UpdateCountSequence ==
    /\ update_count = 0
    /\ [][/\ CycleStarts => update_count' = update_count + 1 /\ raw_data' = raw_data
          /\ ~CycleStarts => update_count' = update_count
          /\ snapshots' # snapshots
                => /\ Len(snapshots') = Len(snapshots) + 1
                   /\ snapshots'[Len(snapshots')].data.update_count = update_count']_vars
    /\ [](\A i \in DOMAIN snapshots :
            /\ snapshots[i].data.update_count <= update_count
            /\ i > 1 => snapshots[i].data.update_count
                            > snapshots[i - 1].data.update_count)

\* the second cycle failed in the fetch: the snapshots of the first and the
\* third carry the numbers 1 and 3
C16_Witness ==
    /\ update_count = 3
    /\ Len(snapshots) = 2
    /\ Len(heap) = 3
    /\ snapshots[1].data.update_count = 1
    /\ snapshots[2].data.update_count = 3

====
